---- MODULE Spec2Model ----
(***************************************************************************)
(* Model of MultiProvider (typescript/sdk/src/provider.ts): a registry of  *)
(* Domains, with one ethers Provider and one ethers Signer per domain id   *)
(* and per-domain overrides and confirmations.                             *)
(*                                                                         *)
(* A Map<number, T> is a function over Ids whose absent keys hold a        *)
(* distinguished "undefined" value; the domains Map, whose iteration order *)
(* the code observes, is the sequence of its entries in insertion order.   *)
(* A string is the sequence of its character codes.                        *)
(*                                                                         *)
(* Every method is an operator from the object m (the five maps and the    *)
(* error the call ended with) to the object after the call, so that a      *)
(* method calling another is the composition of the two and a throw keeps  *)
(* whatever was written before it.  An action applies one method to the    *)
(* current object.                                                         *)
(***************************************************************************)
EXTENDS Integers, Sequences, FiniteSets, TLC

\* ---------------------------------------------------------------- bounds
\* domain ids are 1..MaxId
MaxId == 2
\* distinct Provider objects
NumProviders == 2
\* distinct Signer identities (accounts)
NumKeys == 1
\* confirmation counts are 0..MaxConfirmations
MaxConfirmations == 1
\* distinct ethers.Overrides bags
NumOverrides == 1

Ids == 1 .. MaxId
Providers == 1 .. NumProviders
\* character codes of 'A', 'a', 'b': two casings of one letter and another letter
NameChars == {65, 97, 98}
Names == {<<c>> : c \in NameChars}
Domains == [id : Ids, name : Names]

\* ---------------------------------------------------------------- values
\* undefined / null Provider
NoProvider == 0
\* An ethers.Signer: its identity, its .provider (NoProvider when it has
\* none) and whether its connect(provider) returns a rebound copy (Wallet,
\* VoidSigner) or throws (JsonRpcSigner and other fixed signers).
SignerValues ==
  [key : 1 .. NumKeys, provider : {NoProvider} \cup Providers, canConnect : BOOLEAN]
\* undefined Signer
NoSigner == [key |-> 0, provider |-> NoProvider, canConnect |-> FALSE]
\* undefined Overrides; the bag 0 is the empty bag {}
NoOverrides == -1
EmptyOverrides == 0
OverridesValues == 1 .. NumOverrides
\* undefined confirmations
NoConfirmations == -1
ConfirmationsValues == 0 .. MaxConfirmations

\* A NameOrDomain argument: a number or a string
NumRef(n) == [isString |-> FALSE, num |-> n, str |-> <<>>]
StrRef(s) == [isString |-> TRUE, num |-> 0, str |-> s]
Refs == {NumRef(n) : n \in Ids} \cup {StrRef(s) : s \in Names}

VARIABLES
  domains,        \* Map<number, Domain>: sequence of [id, name] in insertion order
  providers,      \* Map<number, Provider>
  signers,        \* Map<number, ethers.Signer>
  overrides,      \* Map<number, ethers.Overrides>
  confirmations   \* Map<number, number>

vars == <<domains, providers, signers, overrides, confirmations>>

\* The MultiProvider object before a call
This ==
  [domains |-> domains, providers |-> providers, signers |-> signers,
   overrides |-> overrides, confirmations |-> confirmations, err |-> "none"]

\* throw new Error(...) out of a method running on m
Throw(m, e) == [m EXCEPT !.err = e]

\* ------------------------------------------------------------ Map helpers
\* Map.prototype.set on the domains map: an existing key keeps its position
MapSet(map, k, v) ==
  IF \E i \in DOMAIN map : map[i].id = k
    THEN [i \in DOMAIN map |-> IF map[i].id = k THEN v ELSE map[i]]
    ELSE Append(map, v)

MapHas(map, k) == \E i \in DOMAIN map : map[i].id = k

MapGet(map, k) == map[CHOOSE i \in DOMAIN map : map[i].id = k]

\* String.prototype.toLowerCase on ASCII letters
ToLowerCase(s) == [i \in DOMAIN s |-> IF s[i] \in 65 .. 90 THEN s[i] + 32 ELSE s[i]]

\* ------------------------------------------------------------ Domain Directory
\* A variant of registerDomain that keeps names unique: the entries of other
\* ids under the same name, up to letter-casing, are deleted first
registerDomainReplacesByName(m, domain) ==
  LET kept == SelectSeq(m.domains,
                LAMBDA other : other.id = domain.id
                               \/ ToLowerCase(other.name) # ToLowerCase(domain.name))
  IN [m EXCEPT !.domains = MapSet(kept, domain.id, domain)]

\* registerDomain(domain)
registerDomain(m, domain) ==
  [m EXCEPT !.domains = MapSet(m.domains, domain.id, domain)]

\* get domainNumbers(): Array.from(this.domains.keys())
domainNumbersOf(m) == [i \in DOMAIN m.domains |-> m.domains[i].id]

domainNumbers == domainNumbersOf(This)

\* A variant of resolveDomain that compares the names as written
resolveDomainCaseSensitive(m, nameOrDomain) ==
  IF nameOrDomain.isString
    THEN LET matches == SelectSeq(m.domains, LAMBDA domain : domain.name = nameOrDomain.str)
         IN IF Len(matches) = 0
              THEN [err |-> "DomainNotFound", id |-> 0]
              ELSE [err |-> "none", id |-> matches[1].id]
    ELSE [err |-> "none", id |-> nameOrDomain.num]

\* resolveDomain: [err, id]
resolveDomain(m, nameOrDomain) ==
  IF nameOrDomain.isString
    THEN LET matches == SelectSeq(m.domains,
                LAMBDA domain : ToLowerCase(domain.name) = ToLowerCase(nameOrDomain.str))
         IN IF Len(matches) = 0
              THEN [err |-> "DomainNotFound", id |-> 0]
              ELSE [err |-> "none", id |-> matches[1].id]
    ELSE [err |-> "none", id |-> nameOrDomain.num]

\* A variant of mustGetDomainId that resolves without looking the Domain up
mustGetDomainIdUnchecked(m, nameOrDomain) == resolveDomain(m, nameOrDomain)

\* mustGetDomain(nameOrDomain).id: [err, id]
mustGetDomainId(m, nameOrDomain) ==
  LET r == resolveDomain(m, nameOrDomain)
  IN IF r.err # "none" THEN r
     ELSE IF ~MapHas(m.domains, r.id) THEN [err |-> "NotFound", id |-> 0]
     ELSE [err |-> "none", id |-> MapGet(m.domains, r.id).id]

\* knownDomain(nameOrDomain): resolveDomain inside try/catch
knownDomain(m, nameOrDomain) == resolveDomain(m, nameOrDomain).err = "none"

\* get missingProviders(): numbers.filter((number) => this.providers.has(number))
missingProviders(m) ==
  SelectSeq(domainNumbersOf(m), LAMBDA number : m.providers[number] # NoProvider)

\* getFromMap on a Map<number, T>: [err, value]
getFromMap(m, nameOrDomain, map, undefined) ==
  LET r == resolveDomain(m, nameOrDomain)
  IN IF r.err # "none" THEN [err |-> r.err, value |-> undefined]
     ELSE [err |-> "none", value |-> map[r.id]]

\* ------------------------------------------------------------ Connection Registry
\* signer.connect(provider): [ok, signer]; ok = FALSE is the throw
Connect(signer, provider) ==
  [ok |-> signer.canConnect, signer |-> [signer EXCEPT !.provider = provider]]

\* getProvider(nameOrDomain): [err, value]
getProvider(m, nameOrDomain) == getFromMap(m, nameOrDomain, m.providers, NoProvider)

\* getSigner(nameOrDomain): [err, value]
getSigner(m, nameOrDomain) == getFromMap(m, nameOrDomain, m.signers, NoSigner)

\* A variant of unregisterSigner that detaches the provider with the signer
unregisterSignerDropsProvider(m, nameOrDomain) ==
  LET r == resolveDomain(m, nameOrDomain)
  IN IF r.err # "none" THEN Throw(m, r.err)
     ELSE LET domain == r.id
              signer == m.signers[domain]
          IN IF signer = NoSigner THEN m
             ELSE IF signer.provider = NoProvider THEN Throw(m, "InvariantViolation")
             ELSE [m EXCEPT !.signers[domain] = NoSigner, !.providers[domain] = NoProvider]

\* unregisterSigner(nameOrDomain)
unregisterSigner(m, nameOrDomain) ==
  LET r == resolveDomain(m, nameOrDomain)
  IN IF r.err # "none" THEN Throw(m, r.err)
     ELSE LET domain == r.id
              signer == m.signers[domain]
          IN IF signer = NoSigner THEN m
             ELSE IF signer.provider = NoProvider THEN Throw(m, "InvariantViolation")
             ELSE LET m2 == [m EXCEPT !.signers[domain] = NoSigner]
                  IN IF getProvider(m2, nameOrDomain).value = NoProvider
                       THEN [m2 EXCEPT !.providers[domain] = signer.provider]
                       ELSE m2

\* A variant of reconnectSigner for a registerProvider that leaves signers alone
reconnectSignerNever(m, domain, provider) == m

\* A variant of reconnectSigner whose catch block does nothing
reconnectSignerOrKeep(m, domain, provider) ==
  LET signer == m.signers[domain]
      rebound == Connect(signer, provider)
  IN IF signer = NoSigner THEN m
     ELSE IF rebound.ok THEN [m EXCEPT !.signers[domain] = rebound.signer]
     ELSE m

\* registerProvider's try/catch: rebind the domain's signer to the new
\* provider, or unregister it when connect throws
reconnectSigner(m, domain, provider) ==
  LET signer == m.signers[domain]
      rebound == Connect(signer, provider)
  IN IF signer = NoSigner THEN m
     ELSE IF rebound.ok THEN [m EXCEPT !.signers[domain] = rebound.signer]
     ELSE unregisterSigner(m, NumRef(domain))

\* A variant of registerProvider that stores the provider under the resolved id
\* before it looks the Domain up
registerProviderWritesFirst(m, nameOrDomain, provider) ==
  LET r == resolveDomain(m, nameOrDomain)
  IN IF r.err # "none" THEN Throw(m, r.err)
     ELSE LET m1 == [m EXCEPT !.providers[r.id] = provider]
          IN IF ~MapHas(m.domains, r.id) THEN Throw(m1, "NotFound")
             ELSE LET m2 == reconnectSigner(m1, r.id, provider)
                  IN IF m2.err # "none" THEN m2
                     ELSE [m2 EXCEPT !.providers[r.id] = provider]

\* A variant of registerProvider that returns from its catch block
registerProviderUnlessDropped(m, nameOrDomain, provider) ==
  LET g == mustGetDomainId(m, nameOrDomain)
  IN IF g.err # "none" THEN Throw(m, g.err)
     ELSE LET domain == g.id
              m2 == reconnectSigner(m, domain, provider)
          IN IF m2.err # "none" THEN m2
             ELSE IF m.signers[domain] # NoSigner /\ m2.signers[domain] = NoSigner THEN m2
             ELSE [m2 EXCEPT !.providers[domain] = provider]

\* registerProvider(nameOrDomain, provider)
registerProvider(m, nameOrDomain, provider) ==
  LET g == mustGetDomainId(m, nameOrDomain)
  IN IF g.err # "none" THEN Throw(m, g.err)
     ELSE LET domain == g.id
              m2 == reconnectSigner(m, domain, provider)
          IN IF m2.err # "none" THEN m2
             ELSE [m2 EXCEPT !.providers[domain] = provider]

\* A variant of MissingProvider that looks at the registry only
MissingProviderInRegistry(provider, signer) == provider = NoProvider

\* registerSigner's precondition: !provider && !signer.provider
MissingProvider(provider, signer) ==
  provider = NoProvider /\ signer.provider = NoProvider

\* A variant of bindToRegistered that stores the signer it was given
bindToRegisteredAsGiven(m, domain, provider, signer) ==
  LET first == Connect(signer, provider)
      second == Connect(first.signer, provider)
  IN IF provider = NoProvider THEN [done |-> FALSE, m |-> m, signer |-> signer]
     ELSE IF ~first.ok THEN [done |-> FALSE, m |-> m, signer |-> signer]
     ELSE IF ~second.ok THEN [done |-> FALSE, m |-> m, signer |-> first.signer]
     ELSE [done |-> TRUE, m |-> [m EXCEPT !.signers[domain] = signer],
           signer |-> second.signer]

\* registerSigner's if (provider) { try ... catch }: [done, m, signer], done
\* when the method returned from the try block, signer the local variable
bindToRegistered(m, domain, provider, signer) ==
  LET first == Connect(signer, provider)
      second == Connect(first.signer, provider)
  IN IF provider = NoProvider THEN [done |-> FALSE, m |-> m, signer |-> signer]
     ELSE IF ~first.ok THEN [done |-> FALSE, m |-> m, signer |-> signer]
     ELSE IF ~second.ok THEN [done |-> FALSE, m |-> m, signer |-> first.signer]
     ELSE [done |-> TRUE, m |-> [m EXCEPT !.signers[domain] = second.signer],
           signer |-> first.signer]

\* A variant of SignerHasNoProvider for a fallback without its check
SignerHasNoProviderUnchecked(signer) == FALSE

\* registerSigner's fallback check: !signer.provider
SignerHasNoProvider(signer) == signer.provider = NoProvider

\* A variant of registerOwnProvider that stores the signer only
registerOwnProviderSkipped(m, domain, signer) ==
  [m EXCEPT !.signers[domain] = signer]

\* A variant of registerOwnProvider that stores the signer before it registers
\* the signer's provider
registerOwnProviderSignerFirst(m, domain, signer) ==
  registerProvider([m EXCEPT !.signers[domain] = signer], NumRef(domain), signer.provider)

\* registerSigner's fallback: registerProvider(domain, signer.provider), then
\* signers.set(domain, signer)
registerOwnProvider(m, domain, signer) ==
  LET m2 == registerProvider(m, NumRef(domain), signer.provider)
  IN IF m2.err # "none" THEN m2
     ELSE [m2 EXCEPT !.signers[domain] = signer]

\* registerSigner(nameOrDomain, signer)
registerSigner(m, nameOrDomain, signer) ==
  LET r == resolveDomain(m, nameOrDomain)
  IN IF r.err # "none" THEN Throw(m, r.err)
     ELSE LET domain == r.id
              provider == m.providers[domain]
              bound == bindToRegistered(m, domain, provider, signer)
          IN IF MissingProvider(provider, signer) THEN Throw(m, "MissingProvider")
             ELSE IF bound.done THEN bound.m
             ELSE IF SignerHasNoProvider(bound.signer)
               THEN Throw(bound.m, "SignerHasNoProvider")
             ELSE registerOwnProvider(bound.m, domain, bound.signer)

\* clearSigners(): forEach over domainNumbers from index i, ended by the
\* first unregisterSigner that throws
RECURSIVE clearSignersFrom(_, _, _)
clearSignersFrom(m, numbers, i) ==
  IF i > Len(numbers) THEN m
  ELSE LET m2 == unregisterSigner(m, NumRef(numbers[i]))
       IN IF m2.err # "none" THEN m2 ELSE clearSignersFrom(m2, numbers, i + 1)

\* A variant of clearSigners whose loop skips the first registered domain
clearSignersSkipFirst(m) == clearSignersFrom(m, domainNumbersOf(m), 2)

\* clearSigners()
clearSigners(m) == clearSignersFrom(m, domainNumbersOf(m), 1)

\* A Signer | Provider | undefined
Undefined == [kind |-> "undefined", signer |-> NoSigner, provider |-> NoProvider]
SignerConnection(signer) == [kind |-> "signer", signer |-> signer, provider |-> NoProvider]
ProviderConnection(provider) == [kind |-> "provider", signer |-> NoSigner, provider |-> provider]

\* A variant of getConnection that prefers the provider
getConnectionProviderFirst(m, nameOrDomain) ==
  LET s == getSigner(m, nameOrDomain)
      p == getProvider(m, nameOrDomain)
  IN IF p.err # "none" THEN [err |-> p.err, value |-> Undefined]
     ELSE IF p.value # NoProvider THEN [err |-> "none", value |-> ProviderConnection(p.value)]
     ELSE IF s.value # NoSigner THEN [err |-> "none", value |-> SignerConnection(s.value)]
     ELSE [err |-> "none", value |-> Undefined]

\* getConnection(nameOrDomain): getSigner ?? getProvider, [err, value]
getConnection(m, nameOrDomain) ==
  LET s == getSigner(m, nameOrDomain)
      p == getProvider(m, nameOrDomain)
  IN IF s.err # "none" THEN [err |-> s.err, value |-> Undefined]
     ELSE IF s.value # NoSigner THEN [err |-> "none", value |-> SignerConnection(s.value)]
     ELSE IF p.err # "none" THEN [err |-> p.err, value |-> Undefined]
     ELSE IF p.value # NoProvider THEN [err |-> "none", value |-> ProviderConnection(p.value)]
     ELSE [err |-> "none", value |-> Undefined]

\* mustGetConnection(nameOrDomain): [err, value]
mustGetConnection(m, nameOrDomain) ==
  LET connection == getConnection(m, nameOrDomain)
  IN IF connection.err # "none" THEN connection
     ELSE IF connection.value = Undefined
       THEN [err |-> "ConnectionNotFound", value |-> Undefined]
     ELSE connection

\* ------------------------------------------------------------ Policy Store
\* registerOverrides(nameOrDomain, overrides): setMap
registerOverrides(m, nameOrDomain, o) ==
  LET r == resolveDomain(m, nameOrDomain)
  IN IF r.err # "none" THEN Throw(m, r.err)
     ELSE [m EXCEPT !.overrides[r.id] = o]

\* registerConfirmations(nameOrDomain, confirmations): setMap
registerConfirmations(m, nameOrDomain, n) ==
  LET r == resolveDomain(m, nameOrDomain)
  IN IF r.err # "none" THEN Throw(m, r.err)
     ELSE [m EXCEPT !.confirmations[r.id] = n]

\* getOverrides(nameOrDomain): getFromMap(...) || {}, [err, value]
getOverrides(m, nameOrDomain) ==
  LET g == getFromMap(m, nameOrDomain, m.overrides, NoOverrides)
  IN IF g.err # "none" THEN g
     ELSE IF g.value = NoOverrides THEN [err |-> "none", value |-> EmptyOverrides]
     ELSE g

\* A variant of getConfirmations without the || 0 default
getConfirmationsRaw(m, nameOrDomain) ==
  getFromMap(m, nameOrDomain, m.confirmations, NoConfirmations)

\* getConfirmations(nameOrDomain): getFromMap(...) || 0, [err, value]
getConfirmations(m, nameOrDomain) ==
  LET g == getFromMap(m, nameOrDomain, m.confirmations, NoConfirmations)
  IN IF g.err # "none" THEN g
     ELSE IF g.value = NoConfirmations \/ g.value = 0 THEN [err |-> "none", value |-> 0]
     ELSE g

\* ------------------------------------------------------------ the calls
\* new MultiProvider()
Init ==
  /\ domains = <<>>
  /\ providers = [d \in Ids |-> NoProvider]
  /\ signers = [d \in Ids |-> NoSigner]
  /\ overrides = [d \in Ids |-> NoOverrides]
  /\ confirmations = [d \in Ids |-> NoConfirmations]

\* The object is left as the call left it, whether it returned or threw
Becomes(m) ==
  /\ domains' = m.domains
  /\ providers' = m.providers
  /\ signers' = m.signers
  /\ overrides' = m.overrides
  /\ confirmations' = m.confirmations

CallRegisterDomain(domain) == Becomes(registerDomain(This, domain))

CallRegisterProvider(nameOrDomain, provider) ==
  Becomes(registerProvider(This, nameOrDomain, provider))

CallRegisterSigner(nameOrDomain, signer) ==
  Becomes(registerSigner(This, nameOrDomain, signer))

CallUnregisterSigner(nameOrDomain) == Becomes(unregisterSigner(This, nameOrDomain))

CallClearSigners == Becomes(clearSigners(This))

CallRegisterOverrides(nameOrDomain, o) ==
  Becomes(registerOverrides(This, nameOrDomain, o))

CallRegisterConfirmations(nameOrDomain, n) ==
  Becomes(registerConfirmations(This, nameOrDomain, n))

Next ==
  \/ \E domain \in Domains : CallRegisterDomain(domain)
  \/ \E ref \in Refs, p \in Providers : CallRegisterProvider(ref, p)
  \/ \E ref \in Refs, s \in SignerValues : CallRegisterSigner(ref, s)
  \/ \E ref \in Refs : CallUnregisterSigner(ref)
  \/ CallClearSigners
  \/ \E ref \in Refs, o \in OverridesValues : CallRegisterOverrides(ref, o)
  \/ \E ref \in Refs, n \in ConfirmationsValues : CallRegisterConfirmations(ref, n)

Spec == Init /\ [][Next]_vars
\* ------------------------------------------------------------ properties
\* The domain id a reference resolves to in the current object (0 when the
\* name is unknown)
IdOf(ref) == resolveDomain(This, ref).id

Resolves(ref) == resolveDomain(This, ref).err = "none"

\* The reference names a registered Domain
IsDomain(ref) == Resolves(ref) /\ MapHas(domains, IdOf(ref))

\* The signer S attached to the provider P
BoundTo(S, P) == [key |-> S.key, provider |-> P, canConnect |-> S.canConnect]

\* C1: in every state reached by any sequence of calls, returned or thrown,
\* every domain id with a signer entry has a discoverable provider: a provider
\* entry for the id, or the stored signer's own provider reference.
C1_SignerHasDiscoverableProvider ==
  \A d \in Ids :
    signers[d] # NoSigner =>
      (providers[d] # NoProvider \/ signers[d].provider # NoProvider)

\* C1 witness: a signer that cannot be rebound is registered for a domain.
C1_Witness ==
  \E d \in Ids :
    /\ signers[d] # NoSigner
    /\ ~signers[d].canConnect
    /\ (providers[d] # NoProvider \/ signers[d].provider # NoProvider)

\* C2: on a registered domain with a signer S registered, registerProvider(d, P2)
\* leaves getSigner(d) equal to S bound to P2 when S.connect succeeds and
\* undefined when S.connect throws; S bound to another provider than P2 is never
\* left registered.
C2_RegisterProviderRebindsOrDrops ==
  \A ref \in Refs, P2 \in Providers :
    (IsDomain(ref) /\ signers[IdOf(ref)] # NoSigner) =>
      LET S == signers[IdOf(ref)]
          m2 == registerProvider(This, ref, P2)
          after == getSigner(m2, ref)
      IN /\ m2.err = "none"
         /\ after.err = "none"
         /\ S.canConnect => after.value = BoundTo(S, P2)
         /\ ~S.canConnect => after.value = NoSigner
         /\ after.value # NoSigner => after.value.provider = P2

\* C2 witness: one domain holds a rebindable signer and another a fixed one,
\* each bound to another provider than the one being registered, and
\* registerProvider rebinds the first and drops the second.
C2_Witness ==
  \E d1, d2 \in Ids, P2 \in Providers :
    /\ MapHas(domains, d1) /\ MapHas(domains, d2)
    /\ signers[d1] # NoSigner /\ signers[d1].canConnect /\ signers[d1].provider # P2
    /\ signers[d2] # NoSigner /\ ~signers[d2].canConnect /\ signers[d2].provider # P2
    /\ registerProvider(This, NumRef(d1), P2).signers[d1] = BoundTo(signers[d1], P2)
    /\ registerProvider(This, NumRef(d2), P2).signers[d2] = NoSigner

\* C3: whenever registerProvider(d, P) returns, getProvider(d) is P, whatever
\* was registered for d before.
C3_RegisterProviderLastWriteWins ==
  \A ref \in Refs, P \in Providers :
    LET m2 == registerProvider(This, ref, P)
        after == getProvider(m2, ref)
    IN m2.err = "none" => (after.err = "none" /\ after.value = P)

\* C3 witness: a domain holds another provider and a fixed signer bound to it,
\* and registerProvider returns with the new provider registered.
C3_Witness ==
  \E d \in Ids, P \in Providers :
    /\ providers[d] # NoProvider /\ providers[d] # P
    /\ signers[d] # NoSigner /\ ~signers[d].canConnect /\ signers[d].provider # P
    /\ registerProvider(This, NumRef(d), P).err = "none"
    /\ registerProvider(This, NumRef(d), P).providers[d] = P

\* C4: with a provider P registered for d, registerSigner(d, S) with a
\* rebindable S returns, getSigner(d) is S bound to P and getProvider(d) is
\* still P, whatever provider S carried.
C4_RegisteredProviderWins ==
  \A ref \in Refs, S \in SignerValues :
    (Resolves(ref) /\ providers[IdOf(ref)] # NoProvider /\ S.canConnect) =>
      LET P == providers[IdOf(ref)]
          m2 == registerSigner(This, ref, S)
      IN /\ m2.err = "none"
         /\ getSigner(m2, ref) = [err |-> "none", value |-> BoundTo(S, P)]
         /\ getProvider(m2, ref) = [err |-> "none", value |-> P]

\* C4 witness: a rebindable signer carrying another provider than the
\* registered one is registered and ends up bound to the registered one.
C4_Witness ==
  \E d \in Ids, S \in SignerValues :
    /\ providers[d] # NoProvider
    /\ S.canConnect /\ S.provider # NoProvider /\ S.provider # providers[d]
    /\ registerSigner(This, NumRef(d), S).signers[d] = BoundTo(S, providers[d])
    /\ registerSigner(This, NumRef(d), S).providers[d] = providers[d]

C6_NumericIdBypassesDirectory ==
  \A n \in Ids, S \in SignerValues :
    (~MapHas(domains, n) /\ S.provider # NoProvider) =>
      registerSigner(This, NumRef(n), S).err \notin {"DomainNotFound", "NotFound"}

\* C7: registerSigner(d, S) throws MissingProvider exactly when d resolves, no
\* provider is registered for d and S carries no provider, and then none of the
\* five maps has changed.
C7_MissingProviderExactly ==
  \A ref \in Refs, S \in SignerValues :
    LET m2 == registerSigner(This, ref, S)
    IN /\ m2.err = "MissingProvider" <=>
            (Resolves(ref) /\ providers[IdOf(ref)] = NoProvider /\ S.provider = NoProvider)
       /\ m2.err = "MissingProvider" => m2 = Throw(This, "MissingProvider")

\* C7 witness: a registered domain without provider is offered a signer
\* without provider, and the call throws MissingProvider.
C7_Witness ==
  \E ref \in Refs, S \in SignerValues :
    /\ IsDomain(ref) /\ providers[IdOf(ref)] = NoProvider /\ S.provider = NoProvider
    /\ registerSigner(This, ref, S).err = "MissingProvider"

\* C8: for every domain reference that resolves, getConnection returns the
\* registered signer when there is one, else the registered provider when there
\* is one, else undefined; mustGetConnection throws ConnectionNotFound exactly
\* when neither is registered.
C8_ConnectionPrecedence ==
  \A ref \in Refs :
    LET connection == getConnection(This, ref)
        must == mustGetConnection(This, ref)
        d == IdOf(ref)
    IN /\ Resolves(ref) =>
            /\ connection.err = "none"
            /\ signers[d] # NoSigner => connection.value = SignerConnection(signers[d])
            /\ (signers[d] = NoSigner /\ providers[d] # NoProvider) =>
                  connection.value = ProviderConnection(providers[d])
            /\ (signers[d] = NoSigner /\ providers[d] = NoProvider) =>
                  connection.value = Undefined
            /\ must.err = "none" => must.value = connection.value
       /\ must.err = "ConnectionNotFound" <=>
            (Resolves(ref) /\ signers[d] = NoSigner /\ providers[d] = NoProvider)

\* C8 witness: one domain has a signer and a provider, another only a provider,
\* and getConnection returns the signer of the first, the provider of the second.
C8_Witness ==
  \E d1, d2 \in Ids :
    /\ signers[d1] # NoSigner /\ providers[d1] # NoProvider
    /\ signers[d2] = NoSigner /\ providers[d2] # NoProvider
    /\ getConnection(This, NumRef(d1)).value.kind = "signer"
    /\ getConnection(This, NumRef(d2)).value.kind = "provider"

\* C9: unregisterSigner(d) leaves getSigner(d) undefined; a provider entry that
\* existed is unchanged; had none existed, getProvider(d) is the removed
\* signer's provider; with no signer registered the call changes nothing.
C9_UnregisterPreservesProvider ==
  \A ref \in Refs :
    Resolves(ref) =>
      LET d == IdOf(ref)
          S == signers[d]
          m2 == unregisterSigner(This, ref)
      IN /\ getSigner(m2, ref) = [err |-> "none", value |-> NoSigner]
         /\ providers[d] # NoProvider => getProvider(m2, ref).value = providers[d]
         /\ (providers[d] = NoProvider /\ S # NoSigner) =>
               getProvider(m2, ref).value = S.provider
         /\ S = NoSigner => m2 = This
         \* the calls never leave a signer without a provider entry; on the
         \* object with d's provider entry taken away the signer's provider
         \* takes the entry
         /\ S # NoSigner =>
               LET bare == [This EXCEPT !.providers[d] = NoProvider]
               IN getProvider(unregisterSigner(bare, ref), ref).value = S.provider

\* C9 witness: a domain with a registered signer is unregistered by name and
\* keeps its provider.
C9_Witness ==
  \E ref \in Refs :
    /\ ref.isString /\ Resolves(ref)
    /\ signers[IdOf(ref)] # NoSigner
    /\ unregisterSigner(This, ref).signers[IdOf(ref)] = NoSigner
    /\ unregisterSigner(This, ref).providers[IdOf(ref)] = providers[IdOf(ref)]
    /\ providers[IdOf(ref)] # NoProvider

\* C10: from every reachable state clearSigners() returns, leaves domainNumbers
\* unchanged, leaves getSigner(d) undefined for every id d, registered or not,
\* and leaves a provider on every id that had a provider or a signer.
C10_ClearSigners ==
  LET m2 == clearSigners(This)
  IN /\ m2.err = "none"
     /\ domainNumbersOf(m2) = domainNumbers
     /\ \A d \in Ids : getSigner(m2, NumRef(d)) = [err |-> "none", value |-> NoSigner]
     /\ \A d \in Ids :
          (providers[d] # NoProvider \/ signers[d] # NoSigner) =>
             getProvider(m2, NumRef(d)).value # NoProvider

\* C10 witness: every id has a signer registered, and clearSigners removes them
\* all.
C10_Witness ==
  /\ \A d \in Ids : signers[d] # NoSigner
  /\ \A d \in Ids : clearSigners(This).signers[d] = NoSigner
  /\ \A d \in Ids : clearSigners(This).providers[d] # NoProvider

\* The two casings of a character
CaseVariants(c) ==
  IF c \in 65 .. 90 THEN {c, c + 32}
  ELSE IF c \in 97 .. 122 THEN {c, c - 32}
  ELSE {c}

\* Every letter-casing of a name
Casings(name) ==
  {s \in [DOMAIN name -> UNION {CaseVariants(name[i]) : i \in DOMAIN name}] :
     \A i \in DOMAIN name : s[i] \in CaseVariants(name[i])}

\* Two names that differ in letter-casing only
SameNameIgnoringCase(a, b) == b \in Casings(a)

\* The registered domain a name stands for: the first one, in the order of the
\* domains map, whose name is the given one up to letter-casing
FirstNamed(name) ==
  domains[CHOOSE i \in DOMAIN domains :
     /\ SameNameIgnoringCase(domains[i].name, name)
     /\ \A j \in DOMAIN domains : SameNameIgnoringCase(domains[j].name, name) => i <= j]

\* C11 as claimed: for every registered domain D, resolveDomain of D.name in
\* any letter-casing returns D.id, and resolveDomain(D.id) returns D.id.
C11_ResolveReturnsOwnId ==
  \A i \in DOMAIN domains :
    /\ resolveDomain(This, NumRef(domains[i].id)) = [err |-> "none", id |-> domains[i].id]
    /\ \A s \in Casings(domains[i].name) :
         resolveDomain(This, StrRef(s)) = [err |-> "none", id |-> domains[i].id]

\* C11 as amended: for every registered domain D, resolveDomain(D.id) returns
\* D.id, and resolveDomain of D.name in any letter-casing returns the id of the
\* first registered domain with that name up to letter-casing, which is D.id
\* when no other registered domain has that name.
C11_ResolveReturnsFirstNamed ==
  \A i \in DOMAIN domains :
    /\ resolveDomain(This, NumRef(domains[i].id)) = [err |-> "none", id |-> domains[i].id]
    /\ \A s \in Casings(domains[i].name) :
         /\ resolveDomain(This, StrRef(s)) =
              [err |-> "none", id |-> FirstNamed(domains[i].name).id]
         /\ (\A j \in DOMAIN domains :
               SameNameIgnoringCase(domains[j].name, domains[i].name) => j = i)
            => resolveDomain(This, StrRef(s)).id = domains[i].id

\* C11 witness: two domains are registered under names that differ, one of
\* them written in capitals, and a third casing of each resolves to its id.
C11_Witness ==
  /\ Len(domains) = 2
  /\ ~SameNameIgnoringCase(domains[1].name, domains[2].name)
  /\ \E i \in DOMAIN domains : domains[i].name[1] \in 65 .. 90
  /\ \A i \in DOMAIN domains : \A s \in Casings(domains[i].name) :
       resolveDomain(This, StrRef(s)).id = domains[i].id

\* A Domain matching the reference has been registered: by id for a number,
\* by name up to letter-casing for a string
MatchingDomainRegistered(ref) ==
  IF ref.isString
    THEN \E i \in DOMAIN domains : SameNameIgnoringCase(domains[i].name, ref.str)
    ELSE \E i \in DOMAIN domains : domains[i].id = ref.num

\* C12: knownDomain(x) returns true if and only if a Domain matching x, by id
\* for a number and by case-insensitive name for a string, has been registered.
C12_KnownDomainIffRegistered ==
  \A ref \in Refs : knownDomain(This, ref) <=> MatchingDomainRegistered(ref)

\* registerOverrides / registerConfirmations is the only writer of its map and
\* always stores a value, so a reference "for which it was never called" is one
\* whose id has no entry, or a name that resolves to no id at all
NoOverridesRegistered(ref) == ~Resolves(ref) \/ overrides[IdOf(ref)] = NoOverrides

NoConfirmationsRegistered(ref) ==
  ~Resolves(ref) \/ confirmations[IdOf(ref)] = NoConfirmations

\* C13 as claimed: for any domain reference for which registerOverrides /
\* registerConfirmations was never called, registered domain or not,
\* getOverrides returns the empty bag and getConfirmations returns 0, without
\* failing.
C13_PolicyDefaultsForAnyReference ==
  \A ref \in Refs :
    /\ NoOverridesRegistered(ref) =>
         getOverrides(This, ref) = [err |-> "none", value |-> EmptyOverrides]
    /\ NoConfirmationsRegistered(ref) =>
         getConfirmations(This, ref) = [err |-> "none", value |-> 0]

\* C13 as amended: the same for every numeric id, registered or not, and for
\* every name that resolves to a registered domain; a name that matches no
\* registered domain makes both lookups throw DomainNotFound.
C13_PolicyDefaultsForResolvedReference ==
  \A ref \in Refs :
    /\ (Resolves(ref) /\ NoOverridesRegistered(ref)) =>
         getOverrides(This, ref) = [err |-> "none", value |-> EmptyOverrides]
    /\ (Resolves(ref) /\ NoConfirmationsRegistered(ref)) =>
         getConfirmations(This, ref) = [err |-> "none", value |-> 0]
    /\ ~Resolves(ref) =>
         /\ ref.isString
         /\ getOverrides(This, ref).err = "DomainNotFound"
         /\ getConfirmations(This, ref).err = "DomainNotFound"

\* C13 witness: one id has overrides and confirmations registered, another id
\* was never passed to registerDomain nor to the policy setters, and the
\* lookups on it return the defaults.
C13_Witness ==
  \E d1, d2 \in Ids :
    /\ overrides[d1] # NoOverrides /\ confirmations[d1] # NoConfirmations
    /\ ~MapHas(domains, d2)
    /\ overrides[d2] = NoOverrides /\ confirmations[d2] = NoConfirmations
    /\ getOverrides(This, NumRef(d2)).value = EmptyOverrides
    /\ getConfirmations(This, NumRef(d2)).value = 0

\* C14: along any sequence of calls the Domain Directory never loses an id, and
\* a step that changes the domains map is a registerDomain call, which changes
\* nothing but the entry of the id it is given.
C14_DirectoryOnlyGrows ==
  [][/\ \A d \in Ids : MapHas(domains, d) => MapHas(domains', d)
     /\ domains' # domains =>
          \E domain \in Domains :
            /\ CallRegisterDomain(domain)
            /\ \A d \in Ids \ {domain.id} :
                 MapHas(domains, d) => MapGet(domains', d) = MapGet(domains, d)]_vars

\* C14 witness: every id is registered and has a provider, the first two under
\* names that differ in letter-casing at most, and a signer and overrides are
\* registered, so directory, registry and policy calls have all acted.
C14_Witness ==
  /\ Len(domains) = MaxId
  /\ \A d \in Ids : MapHas(domains, d) /\ providers[d] # NoProvider
  /\ \E d \in Ids : signers[d] # NoSigner
  /\ \E d \in Ids : overrides[d] # NoOverrides
  /\ SameNameIgnoringCase(domains[1].name, domains[2].name)

\* C15: with a provider P registered for d, registerSigner(d, S), by id or by
\* any casing of the name, with S that cannot be rebound and carries its own
\* provider P', returns without error, getSigner(d) is S as given and
\* getProvider(d) is P'; a signer registered before is replaced by S.
C15_FixedSignerFallsBackToOwnProvider ==
  \A ref \in Refs, S \in SignerValues :
    (Resolves(ref) /\ providers[IdOf(ref)] # NoProvider
       /\ ~S.canConnect /\ S.provider # NoProvider) =>
      LET m2 == registerSigner(This, ref, S)
      IN /\ m2.err = "none"
         /\ getSigner(m2, ref) = [err |-> "none", value |-> S]
         /\ getProvider(m2, ref) = [err |-> "none", value |-> S.provider]
         /\ \A s \in Casings(ref.str) :
              ref.isString => registerSigner(This, StrRef(s), S) = m2

\* C15 witness: a domain registered in small letters has a provider and a
\* rebindable signer; a fixed signer carrying another provider is registered
\* under the name in capitals, replaces the signer and brings its provider.
C15_Witness ==
  \E ref \in Refs, S \in SignerValues :
    /\ ref.isString /\ Resolves(ref)
    /\ ref.str[1] \in 65 .. 90
    /\ MapGet(domains, IdOf(ref)).name # ref.str
    /\ providers[IdOf(ref)] # NoProvider
    /\ signers[IdOf(ref)] # NoSigner /\ signers[IdOf(ref)].canConnect
    /\ ~S.canConnect /\ S.provider # NoProvider /\ S.provider # providers[IdOf(ref)]
    /\ registerSigner(This, ref, S).signers[IdOf(ref)] = S
    /\ registerSigner(This, ref, S).providers[IdOf(ref)] = S.provider

\* C16: in every reachable state every stored signer carries a provider, so
\* unregisterSigner and clearSigners never throw 'signer was missing provider',
\* nor does registerProvider through its catch block.
C16_NoInvariantViolation ==
  /\ \A d \in Ids : signers[d] # NoSigner => signers[d].provider # NoProvider
  /\ \A ref \in Refs : unregisterSigner(This, ref).err # "InvariantViolation"
  /\ clearSigners(This).err # "InvariantViolation"
  /\ \A ref \in Refs, P \in Providers :
       registerProvider(This, ref, P).err # "InvariantViolation"
  /\ \A ref \in Refs, S \in SignerValues :
       registerSigner(This, ref, S).err # "InvariantViolation"

\* C16 witness: a fixed signer is registered, and registerProvider with another
\* provider unregisters it in its catch block without error.
C16_Witness ==
  \E d \in Ids, P \in Providers :
    /\ signers[d] # NoSigner /\ ~signers[d].canConnect
    /\ signers[d].provider # NoProvider /\ signers[d].provider # P
    /\ registerProvider(This, NumRef(d), P).err = "none"
    /\ registerProvider(This, NumRef(d), P).signers[d] = NoSigner
    /\ unregisterSigner(This, NumRef(d)).err = "none"

\* C17: in every reachable state every id with a signer entry has a provider
\* entry, and the stored signer's provider is that provider; so no call of
\* unregisterSigner promotes a signer's provider into an empty provider slot.
C17_SignerBoundToRegisteredProvider ==
  /\ \A d \in Ids :
       signers[d] # NoSigner =>
         (providers[d] # NoProvider /\ signers[d].provider = providers[d])
  /\ \A ref \in Refs, d \in Ids :
       providers[d] = NoProvider => unregisterSigner(This, ref).providers[d] = NoProvider
  /\ \A d \in Ids : providers[d] = NoProvider => clearSigners(This).providers[d] = NoProvider

\* C17 witness: one domain holds a fixed signer registered through the
\* fallback and another a rebindable one, each bound to its domain's provider,
\* and the two providers differ.
C17_Witness ==
  \E d1, d2 \in Ids :
    /\ signers[d1] # NoSigner /\ ~signers[d1].canConnect
    /\ signers[d2] # NoSigner /\ signers[d2].canConnect
    /\ signers[d1].provider = providers[d1]
    /\ signers[d2].provider = providers[d2]
    /\ providers[d1] # providers[d2]

\* C18: in every reachable state every id with a provider entry or a signer
\* entry is a registered domain id, so clearSigners' loop over domainNumbers
\* misses no signer.
C18_EntriesOnlyForRegisteredDomains ==
  /\ \A d \in Ids :
       (providers[d] # NoProvider \/ signers[d] # NoSigner) => MapHas(domains, d)
  /\ \A d \in Ids :
       signers[d] # NoSigner => \E i \in DOMAIN domainNumbers : domainNumbers[i] = d

\* C18 witness: one id is registered and has a provider and a signer, while
\* another id was never registered and has neither.
C18_Witness ==
  \E d1, d2 \in Ids :
    /\ MapHas(domains, d1) /\ providers[d1] # NoProvider /\ signers[d1] # NoSigner
    /\ ~MapHas(domains, d2) /\ providers[d2] = NoProvider /\ signers[d2] = NoSigner

\* C19: whenever registerProvider, registerSigner or unregisterSigner throws,
\* the providers and signers maps are as they were before the call; a
\* registerSigner that fails in its fallback has neither replaced the provider
\* nor dropped or rebound the signer registered before.
C19_FailureAtomicity ==
  /\ \A ref \in Refs, P \in Providers :
       LET m2 == registerProvider(This, ref, P)
       IN m2.err # "none" => (m2.providers = providers /\ m2.signers = signers)
  /\ \A ref \in Refs, S \in SignerValues :
       LET m2 == registerSigner(This, ref, S)
       IN m2.err # "none" => (m2.providers = providers /\ m2.signers = signers)
  /\ \A ref \in Refs :
       LET m2 == unregisterSigner(This, ref)
       IN m2.err # "none" => (m2.providers = providers /\ m2.signers = signers)

\* C19 witness: a domain has a provider and a rebindable signer; registerSigner
\* with a fixed signer without provider throws in the fallback, registerSigner
\* on an id never registered throws in registerProvider, and the maps are kept.
C19_Witness ==
  \E d1, d2 \in Ids, S1, S2 \in SignerValues :
    /\ providers[d1] # NoProvider /\ signers[d1] # NoSigner /\ signers[d1].canConnect
    /\ ~S1.canConnect /\ S1.provider = NoProvider
    /\ registerSigner(This, NumRef(d1), S1) = Throw(This, "SignerHasNoProvider")
    /\ ~MapHas(domains, d2) /\ S2.provider # NoProvider
    /\ registerSigner(This, NumRef(d2), S2) = Throw(This, "NotFound")

\* C20: in every reachable state missingProviders is exactly the registered
\* domain ids, in the order of domainNumbers, for which no provider is
\* registered.
C20_MissingProvidersAreMissing ==
  missingProviders(This) =
    SelectSeq(domainNumbers, LAMBDA number : providers[number] = NoProvider)
====
